---------------------------- MODULE Spec2Model ----------------------------
(***************************************************************************)
(* Model of the household census backend (src/index.js; the earlier        *)
(* revision src/unnamed/part_000 holds the same submission handler).       *)
(*                                                                         *)
(* Each HTTP request is an asynchronous task.  A handler runs without      *)
(* interruption between two awaits, so one action of the model is "the     *)
(* pending await settles, and the handler runs on to its next await (or to *)
(* its end)".  pc[r] names the await request r is suspended at.            *)
(*                                                                         *)
(* The store (PostgreSQL behind pg.Pool) is modelled at its interface:     *)
(* a session holds an open transaction with uncommitted rows; COMMIT makes *)
(* them visible atomically, ROLLBACK discards them; a statement may fail   *)
(* with a statement error (session stays usable) or because the connection *)
(* is lost (the server discards the open transaction, later statements on  *)
(* the session fail, and the pool replaces the client when it is released).*)
(***************************************************************************)
EXTENDS Integers, Sequences, FiniteSets, TLC

(***************************************************************************)
(* Bounds of the model.                                                    *)
(***************************************************************************)
NumReq == 2
PoolSize == 2
MaxMembers == 2

Requests == 1..NumReq
Sessions == 1..PoolSize

(***************************************************************************)
(* State.                                                                  *)
(***************************************************************************)
VARIABLES
  pc,            \* pc[r]: the await request r is suspended at
  endpoint,      \* endpoint[r]: the route of request r
  body,          \* body[r]: req.body
  client,        \* client[r]: the session pool.connect() gave, 0 before
  householdId,   \* householdId[r]: householdResult.rows[0].household_id, 0 before
  idx,           \* idx[r]: position of the for..of loop over familyMembers
  error,         \* error[r]: message of the error the catch block caught
  results,       \* results[r]: rows of the queries a read handler has awaited
  response,      \* response[r]: the responses written to res, in order
  trace,         \* trace[r]: what r did to pool, store and res, in order
  pool,          \* pool[s]: holder and transaction of session s
  Households,    \* committed rows of table Households
  FamilyMembers, \* committed rows of table FamilyMembers
  nextId         \* next value of the household_id sequence

reqVars == <<pc, endpoint, body, client, householdId, idx, error, results,
             response, trace>>
storeVars == <<pool, Households, FamilyMembers, nextId>>
vars == <<pc, endpoint, body, client, householdId, idx, error, results,
          response, trace, pool, Households, FamilyMembers, nextId>>

(***************************************************************************)
(* JavaScript values.  A JS value that is not text is written as a tagged  *)
(* string; every other string is the JS string with that text.             *)
(***************************************************************************)
Undefined == "<undefined>"
Null == "<null>"
EmptyString == ""
Zero == "<0>"
False == "<false>"
True == "<true>"

\* The values JavaScript's ! and || treat as false.
Falsy == {Undefined, Null, EmptyString, Zero, False}

\* Mutant: a ?? null, which keeps "", 0 and false.
OrNullish(v) == IF v \in {Undefined, Null} THEN Null ELSE v

\* a || null  (index.js 81-86)
OrNull(v) == IF v \in Falsy THEN Null ELSE v

(***************************************************************************)
(* Text that the handler inspects character by character is a sequence of  *)
(* one-character strings.                                                  *)
(***************************************************************************)
Digits == {"0", "1", "2", "3", "4", "5", "6", "7", "8", "9"}

DigitVal(c) ==
  CASE c = "0" -> 0 [] c = "1" -> 1 [] c = "2" -> 2 [] c = "3" -> 3
    [] c = "4" -> 4 [] c = "5" -> 5 [] c = "6" -> 6 [] c = "7" -> 7
    [] c = "8" -> 8 [] c = "9" -> 9

\* \d+
IsDigits(s) == Len(s) > 0 /\ \A k \in 1..Len(s) : s[k] \in Digits

\* -?\d+(\.\d+)?
IsDecimal(s) ==
  LET u == IF Len(s) > 0 /\ s[1] = "-" THEN Tail(s) ELSE s
  IN  \/ IsDigits(u)
      \/ \E k \in 1..Len(u) : /\ u[k] = "."
                              /\ IsDigits(SubSeq(u, 1, k - 1))
                              /\ IsDigits(SubSeq(u, k + 1, Len(u)))

\* Mutant: the pattern without its anchors ^ and $.
LocationRegexUnanchored(s) ==
  \E i, k, j \in 1..Len(s) :
    /\ i < k /\ k < j
    /\ s[k] = ","
    /\ IsDecimal(SubSeq(s, i, k - 1))
    /\ IsDecimal(SubSeq(s, k + 1, j))

\* /^-?\d+(\.\d+)?,-?\d+(\.\d+)?$/.test(s)   (index.js 26)
LocationRegexTest(s) ==
  \E k \in 1..Len(s) : /\ s[k] = ","
                       /\ IsDecimal(SubSeq(s, 1, k - 1))
                       /\ IsDecimal(SubSeq(s, k + 1, Len(s)))

\* s.split(','): the pieces of s between its commas.
RECURSIVE Split(_)
Split(s) ==
  IF \A k \in 1..Len(s) : s[k] # ","
  THEN <<s>>
  ELSE LET k == CHOOSE j \in 1..Len(s) :
                  s[j] = "," /\ \A m \in 1..(j - 1) : s[m] # ","
       IN  <<SubSeq(s, 1, k - 1)>> \o Split(SubSeq(s, k + 1, Len(s)))

RECURSIVE DigitsToNat(_)
DigitsToNat(s) ==
  IF Len(s) = 0 THEN 0
  ELSE 10 * DigitsToNat(SubSeq(s, 1, Len(s) - 1)) + DigitVal(s[Len(s)])

\* A decimal number n / 10^e, without trailing fraction zeros.
RECURSIVE Normal(_)
Normal(d) ==
  IF d.e > 0 /\ d.n % 10 = 0 THEN Normal([n |-> d.n \div 10, e |-> d.e - 1])
  ELSE d

NaN == [n |-> 0, e |-> -1]

\* parseFloat(s) for the texts the handler passes it: the halves of a
\* location that matched the pattern (index.js 44).
ParseFloat(s) ==
  IF ~IsDecimal(s) THEN NaN
  ELSE LET neg == s[1] = "-"
           u == IF neg THEN Tail(s) ELSE s
           dot == IF \E k \in 1..Len(u) : u[k] = "."
                  THEN CHOOSE k \in 1..Len(u) : u[k] = "."
                  ELSE Len(u) + 1
           int == SubSeq(u, 1, dot - 1)
           frac == SubSeq(u, dot + 1, Len(u))
           mag == DigitsToNat(int \o frac)
       IN  Normal([n |-> IF neg THEN 0 - mag ELSE mag, e |-> Len(frac)])

(***************************************************************************)
(* Request bodies.                                                         *)
(***************************************************************************)
RequiredFields == {"name", "birthDate", "gender"}
OptionalFields == {"educationLevel", "schoolName", "studyType", "studyYear",
                   "disabilityType", "otherDisability"}
PassedFields == {"phone", "serveInChurch", "maritalStatus", "community",
                 "jobType", "hasDisability"}
Fields == RequiredFields \cup PassedFields \cup OptionalFields

\* The two genders of the data's encoding (written in Ethiopic script in
\* the source, index.js 228-229).
Male == "wend"
Female == "set"

\* A member that sends only the three required fields.
Abel == [f \in Fields |->
           CASE f = "name" -> "Abel"
             [] f = "birthDate" -> "1990-01-01"
             [] f = "gender" -> Male
             [] OTHER -> Undefined]

Without(m, f) == [m EXCEPT ![f] = Undefined]
With(m, f, v) == [m EXCEPT ![f] = v]

Mary == [Abel EXCEPT !["name"] = "Mary", !["gender"] = Female,
                     !["serveInChurch"] = True, !["schoolName"] = "AAU",
                     !["studyYear"] = Zero, !["otherDisability"] = EmptyString]

Text(loc) == [type |-> "string", chars |-> loc]
Missing == [type |-> "undefined"]
Array(items) == [type |-> "array", items |-> items]

Loc_9_03_38_74 == Text(<<"9", ".", "0", "3", ",", "3", "8", ".", "7", "4">>)
Loc_neg == Text(<<"-", "1", ".", "5", "0", ",", "2">>)
Loc_word == Text(<<"a", "b", "c">>)
Loc_empty == Text(<<>>)
Loc_space == Text(<<" ", "1", ",", "2">>)
Loc_three == Text(<<"1", ",", "2", ",", "3">>)
Loc_nofrac == Text(<<"1", ".", ",", "2">>)

\* All sequences over S of length 0..n.
SeqsUpTo(S, n) == UNION {[1..k -> S] : k \in 0..n}

Body(loc, fm) == [householdLocation |-> loc, familyMembers |-> fm]
NoBody == Body(Missing, Missing)

\* Bodies of the concurrent specification: few, so that requests interleave.
SmallBodies ==
  { Body(Loc_9_03_38_74, Array(<<Abel, Mary>>)),
    Body(Loc_neg, Array(<<Mary, Without(Abel, "gender")>>)),
    Body(Loc_word, Array(<<Abel>>)) }

\* Bodies of the single-request specification: every shape the handler
\* distinguishes, members drawn in every order up to MaxMembers.
Sara == [Abel EXCEPT !["name"] = "Sara", !["gender"] = Female,
                     !["educationLevel"] = Null, !["studyType"] = False,
                     !["disabilityType"] = "hearing"]

MemberKinds == {Abel, Mary, Sara, Without(Abel, "name"),
                With(Mary, "birthDate", EmptyString), With(Abel, "gender", Null)}

RichBodies ==
  {Body(loc, fm) :
     loc \in {Loc_9_03_38_74, Loc_neg, Loc_word, Loc_empty, Loc_space,
              Loc_three, Loc_nofrac, Missing},
     fm \in {Missing, Text(<<"x">>)}
            \cup {Array(l) : l \in SeqsUpTo(MemberKinds, MaxMembers)}}

(***************************************************************************)
(* The submission handler's pure parts.                                    *)
(***************************************************************************)
\* !householdLocation || !regex.test(householdLocation)      (index.js 26)
InvalidLocation(loc) ==
  \/ loc.type = "undefined"
  \/ loc.type = "string" /\ Len(loc.chars) = 0
  \/ loc.type = "string" /\ ~LocationRegexTest(loc.chars)

\* !familyMembers || !Array.isArray(familyMembers) || length === 0  (30)
InvalidMemberList(fm) ==
  \/ fm.type = "undefined"
  \/ fm.type = "string"
  \/ fm.type = "array" /\ Len(fm.items) = 0

\* !member.name || !member.birthDate || !member.gender       (index.js 66)
IncompleteMember(member) ==
  \/ member["name"] \in Falsy
  \/ member["birthDate"] \in Falsy
  \/ member["gender"] \in Falsy

\* Mutant: the identifier of the household inserted last by any request,
\* not the one this request read back.
memberValuesOfLatest(hid, member) ==
  << nextId - 1, member["name"], member["phone"], member["birthDate"],
     member["gender"], member["serveInChurch"], member["maritalStatus"],
     member["community"], member["jobType"], member["hasDisability"],
     OrNull(member["educationLevel"]), OrNull(member["schoolName"]),
     OrNull(member["studyType"]), OrNull(member["studyYear"]),
     OrNull(member["disabilityType"]), OrNull(member["otherDisability"]) >>

\* The 16 values of one member insert, in column order       (index.js 70-87)
memberValues(hid, member) ==
  << hid,
     member["name"],
     member["phone"],
     member["birthDate"],
     member["gender"],
     member["serveInChurch"],
     member["maritalStatus"],
     member["community"],
     member["jobType"],
     member["hasDisability"],
     OrNull(member["educationLevel"]),
     OrNull(member["schoolName"]),
     OrNull(member["studyType"]),
     OrNull(member["studyYear"]),
     OrNull(member["disabilityType"]),
     OrNull(member["otherDisability"]) >>

\* The columns of FamilyMembers, in the order of the insert  (index.js 56-60)
memberColumns ==
  << "household_id", "name", "phone", "birthdate", "gender", "serveinchurch",
     "maritalstatus", "community", "jobtype", "hasdisability", "educationlevel",
     "schoolname", "studytype", "studyyear", "disabilitytype", "otherdisability" >>

\* [parseFloat(latitude), parseFloat(longitude)]             (index.js 42-44)
householdValues(loc) ==
  LET parts == Split(loc.chars)
  IN  << ParseFloat(parts[1]), ParseFloat(parts[2]) >>

\* The error messages of the handler.
MsgLocation == "Missing or invalid householdLocation. Expected format: \"latitude,longitude\""
MsgMembers == "Missing or empty familyMembers array."
MsgNoHousehold == "Failed to create a new household record."
MsgMissingFields == "A family member is missing required fields (name, birthDate, gender)."
MsgInternal == "Internal server error"
MsgTypeError == "Cannot read properties of undefined (reading 'household_id')"
\* error.message of an error the store raised.
MsgStore == "store error"
MsgRegistered == "Household and members registered successfully."

FreshSession ==
  [holder |-> 0, alive |-> TRUE, open |-> FALSE, households |-> {}, members |-> {}]

\* No request has arrived yet and every session is idle.
InitRequests ==
  /\ pc = [r \in Requests |-> "idle"]
  /\ endpoint = [r \in Requests |-> "none"]
  /\ body = [r \in Requests |-> NoBody]
  /\ client = [r \in Requests |-> 0]
  /\ householdId = [r \in Requests |-> 0]
  /\ idx = [r \in Requests |-> 0]
  /\ error = [r \in Requests |-> ""]
  /\ results = [r \in Requests |-> <<>>]
  /\ response = [r \in Requests |-> <<>>]
  /\ trace = [r \in Requests |-> <<>>]
  /\ pool = [s \in Sessions |-> FreshSession]

Init ==
  /\ InitRequests
  /\ Households = {}
  /\ FamilyMembers = {}
  /\ nextId = 1

(***************************************************************************)
(* The store, as the handlers see it through a session.                    *)
(***************************************************************************)
\* How an awaited statement on session s can settle: it succeeds, the store
\* refuses it, or the connection is lost.
Outcomes(s) == IF pool[s].alive THEN {"ok", "error", "lost"} ELSE {"lost"}

\* The connection of session c is lost: the server discards its transaction.
Lost(c) == [c EXCEPT !.alive = FALSE, !.open = FALSE,
                     !.households = {}, !.members = {}]

\* Mutant: no transaction is opened, every insert commits at once.
BegunNot(c) == c

\* BEGIN: opens a transaction (a no-op inside an open one)  (index.js 39)
Begun(c) == [c EXCEPT !.open = TRUE]

\* ROLLBACK: discards the uncommitted rows of c             (index.js 99)
RolledBack(c) == [c EXCEPT !.open = FALSE, !.households = {}, !.members = {}]

\* COMMIT: the uncommitted rows of c become visible, all at once (index.js 93)
Committed(c) == [c EXCEPT !.open = FALSE, !.households = {}, !.members = {}]

\* Mutant: the success response is sent without the rows being committed.
CommittedNothing(c) == Households
CommittedHouseholds(c) == Households \cup c.households
CommittedMembers(c) == FamilyMembers \cup c.members

\* client.release(): the session is idle again; the pool replaces a client
\* whose connection is lost                                  (index.js 107)
Released(c) == IF c.alive THEN [c EXCEPT !.holder = 0] ELSE FreshSession

\* The session pool.connect() resolves with.
IdleSessions == {s \in Sessions : pool[s].holder = 0}

\* Mutant: one client shared by every request.
SharedSession == CHOOSE s \in Sessions : \A t \in Sessions : s <= t

NextIdle == CHOOSE s \in IdleSessions : \A t \in IdleSessions : s <= t

\* The row of INSERT INTO Households (latitude, longitude) VALUES ($1, $2)
\* RETURNING household_id, issued by request r              (index.js 43-44)
householdRow(r, id, values) ==
  [household_id |-> id, latitude |-> values[1], longitude |-> values[2],
   tithe_status |-> Null, community |-> Null, by |-> r]

\* The row of INSERT INTO FamilyMembers (...) VALUES ($1, ..., $16), issued
\* by request r for its k-th member                         (index.js 55-61)
memberRow(r, k, values) ==
  [c \in {memberColumns[j] : j \in 1..16} |->
     values[CHOOSE j \in 1..16 : memberColumns[j] = c]]
  @@ [by |-> r, pos |-> k]

\* An INSERT on session c goes into its open transaction; without one the
\* row is committed at once.
WithHousehold(c, row) ==
  IF c.open THEN [c EXCEPT !.households = @ \cup {row}] ELSE c
WithMember(c, row) ==
  IF c.open THEN [c EXCEPT !.members = @ \cup {row}] ELSE c
AutoCommitted(c, row) == IF c.open THEN {} ELSE {row}

(***************************************************************************)
(* POST /submit-form                                      (index.js 22-109)*)
(***************************************************************************)
Respond(r, status, json) == [status |-> status, json |-> json]

\* Mutant: the error response is written before ROLLBACK is issued.
CatchRespondsFirst(r, message, tr) ==
  /\ pc' = [pc EXCEPT ![r] = "rollback"]
  /\ error' = [error EXCEPT ![r] = message]
  /\ trace' = [trace EXCEPT ![r] = tr \o <<"respond", "ROLLBACK">>]

\* catch (error) { await client.query('ROLLBACK') ...       (index.js 97-99)
Catch(r, message, tr) ==
  /\ pc' = [pc EXCEPT ![r] = "rollback"]
  /\ error' = [error EXCEPT ![r] = message]
  /\ trace' = [trace EXCEPT ![r] = tr \o <<"ROLLBACK">>]

\* Mutant: the loop stops one member early.
LoopStopsEarly(r, k, tr) ==
  LET items == body[r].familyMembers.items IN
  /\ idx' = [idx EXCEPT ![r] = k]
  /\ IF k >= Len(items)
     THEN /\ pc' = [pc EXCEPT ![r] = "commit"]
          /\ trace' = [trace EXCEPT ![r] = tr \o <<"COMMIT">>]
          /\ UNCHANGED error
     ELSE IF IncompleteMember(items[k])
     THEN Catch(r, MsgMissingFields, tr)
     ELSE /\ pc' = [pc EXCEPT ![r] = "member"]
          /\ trace' = [trace EXCEPT ![r] = tr \o <<"INSERT FamilyMembers">>]
          /\ UNCHANGED error

\* The for..of loop from its k-th member to its next await  (index.js 64-93)
Loop(r, k, tr) ==
  LET items == body[r].familyMembers.items IN
  /\ idx' = [idx EXCEPT ![r] = k]
  /\ IF k > Len(items)
     THEN /\ pc' = [pc EXCEPT ![r] = "commit"]
          /\ trace' = [trace EXCEPT ![r] = tr \o <<"COMMIT">>]
          /\ UNCHANGED error
     ELSE IF IncompleteMember(items[k])
     THEN Catch(r, MsgMissingFields, tr)
     ELSE /\ pc' = [pc EXCEPT ![r] = "member"]
          /\ trace' = [trace EXCEPT ![r] = tr \o <<"INSERT FamilyMembers">>]
          /\ UNCHANGED error

\* The request arrives (requests are numbered in their order of arrival);
\* the handler validates the body and asks the pool for a session
\*                                                          (index.js 22-35)
Submit(r, b) ==
  /\ pc[r] = "idle"
  /\ \A q \in Requests : q < r => pc[q] # "idle"
  /\ endpoint' = [endpoint EXCEPT ![r] = "submit-form"]
  /\ body' = [body EXCEPT ![r] = b]
  /\ IF InvalidLocation(b.householdLocation)
     THEN /\ response' = [response EXCEPT ![r] =
                            @ \o <<Respond(r, 400, [error |-> MsgLocation])>>]
          /\ trace' = [trace EXCEPT ![r] = @ \o <<"respond">>]
          /\ pc' = [pc EXCEPT ![r] = "done"]
     ELSE IF InvalidMemberList(b.familyMembers)
     THEN /\ response' = [response EXCEPT ![r] =
                            @ \o <<Respond(r, 400, [error |-> MsgMembers])>>]
          /\ trace' = [trace EXCEPT ![r] = @ \o <<"respond">>]
          /\ pc' = [pc EXCEPT ![r] = "done"]
     ELSE /\ pc' = [pc EXCEPT ![r] = "connect"]
          /\ UNCHANGED <<response, trace>>
  /\ UNCHANGED <<client, householdId, idx, error, results>>
  /\ UNCHANGED storeVars

\* pool.connect() resolves; the handler issues BEGIN        (index.js 35-39)
Connect(r) ==
  /\ pc[r] = "connect"
  /\ endpoint[r] = "submit-form"
  /\ IdleSessions # {}
  /\ client' = [client EXCEPT ![r] = NextIdle]
  /\ pool' = [pool EXCEPT ![NextIdle].holder = r]
  /\ trace' = [trace EXCEPT ![r] = @ \o <<"connect", "BEGIN">>]
  /\ pc' = [pc EXCEPT ![r] = "begin"]
  /\ UNCHANGED <<endpoint, body, householdId, idx, error, results, response>>
  /\ UNCHANGED <<Households, FamilyMembers, nextId>>

\* pool.connect() rejects: the await is outside the try, the handler's
\* promise rejects and nothing is written to res            (index.js 35)
ConnectFail(r) ==
  /\ pc[r] = "connect"
  /\ endpoint[r] = "submit-form"
  /\ trace' = [trace EXCEPT ![r] = @ \o <<"reject">>]
  /\ pc' = [pc EXCEPT ![r] = "done"]
  /\ UNCHANGED <<endpoint, body, client, householdId, idx, error, results, response>>
  /\ UNCHANGED storeVars

\* BEGIN settles; the handler issues the household insert   (index.js 39-44)
Begin(r, o) ==
  /\ pc[r] = "begin"
  /\ o \in Outcomes(client[r])
  /\ IF o = "ok"
     THEN /\ pool' = [pool EXCEPT ![client[r]] = Begun(@)]
          /\ pc' = [pc EXCEPT ![r] = "household"]
          /\ trace' = [trace EXCEPT ![r] = @ \o <<"INSERT Households">>]
          /\ UNCHANGED error
     ELSE /\ pool' = [pool EXCEPT ![client[r]] = IF o = "lost" THEN Lost(@) ELSE @]
          /\ Catch(r, MsgStore, trace[r])
  /\ UNCHANGED <<endpoint, body, client, householdId, idx, results, response>>
  /\ UNCHANGED <<Households, FamilyMembers, nextId>>

\* The household insert settles; the handler reads the identifier and runs
\* the loop to its first member insert                      (index.js 44-89)
InsertHousehold(r, o) ==
  LET s == client[r]
      row == householdRow(r, nextId, householdValues(body[r].householdLocation))
  IN
  /\ pc[r] = "household"
  /\ o \in Outcomes(s) \cup (IF pool[s].alive THEN {"norow", "noid"} ELSE {})
  /\ CASE o = "ok" ->
            /\ pool' = [pool EXCEPT ![s] = WithHousehold(@, row)]
            /\ Households' = Households \cup AutoCommitted(pool[s], row)
            /\ nextId' = nextId + 1
            /\ householdId' = [householdId EXCEPT ![r] = nextId]
            /\ Loop(r, 1, trace[r])
       [] o = "noid" ->
            \* a row without household_id: if (!householdId) throw
            /\ pool' = [pool EXCEPT ![s] = WithHousehold(@, row)]
            /\ Households' = Households \cup AutoCommitted(pool[s], row)
            /\ nextId' = nextId + 1
            /\ Catch(r, MsgNoHousehold, trace[r])
            /\ UNCHANGED <<householdId, idx>>
       [] o = "norow" ->
            \* no row: rows[0].household_id throws a TypeError
            /\ Catch(r, MsgTypeError, trace[r])
            /\ UNCHANGED <<pool, Households, nextId, householdId, idx>>
       [] o = "error" ->
            /\ Catch(r, MsgStore, trace[r])
            /\ UNCHANGED <<pool, Households, nextId, householdId, idx>>
       [] o = "lost" ->
            /\ pool' = [pool EXCEPT ![s] = Lost(@)]
            /\ Catch(r, MsgStore, trace[r])
            /\ UNCHANGED <<Households, nextId, householdId, idx>>
  /\ UNCHANGED <<endpoint, body, client, results, response, FamilyMembers>>

\* A member insert settles; the loop runs on to the next member insert, or
\* to COMMIT                                                (index.js 89-93)
InsertMember(r, o) ==
  LET s == client[r]
      k == idx[r]
      row == memberRow(r, k, memberValues(householdId[r],
                                          body[r].familyMembers.items[k]))
  IN
  /\ pc[r] = "member"
  /\ o \in Outcomes(s)
  /\ CASE o = "ok" ->
            /\ pool' = [pool EXCEPT ![s] = WithMember(@, row)]
            /\ FamilyMembers' = FamilyMembers \cup AutoCommitted(pool[s], row)
            /\ Loop(r, k + 1, trace[r])
       [] o = "error" ->
            /\ Catch(r, MsgStore, trace[r])
            /\ UNCHANGED <<pool, FamilyMembers, idx>>
       [] o = "lost" ->
            /\ pool' = [pool EXCEPT ![s] = Lost(@)]
            /\ Catch(r, MsgStore, trace[r])
            /\ UNCHANGED <<FamilyMembers, idx>>
  /\ UNCHANGED <<endpoint, body, client, householdId, results, response>>
  /\ UNCHANGED <<Households, nextId>>

\* Mutant: the release is the last statement of the try block, so a path
\* through the catch block never releases.
FinallyOnlyOnSuccess(r, c, before, after) ==
  IF error[r] = ""
  THEN /\ pool' = [pool EXCEPT ![client[r]] = Released(c)]
       /\ trace' = [trace EXCEPT ![r] = before \o <<"release">> \o after]
  ELSE /\ pool' = [pool EXCEPT ![client[r]] = c]
       /\ trace' = [trace EXCEPT ![r] = before \o after]

\* finally { client.release() }, between what the handler did before it
\* and what follows it                                      (index.js 105-108)
Finally(r, c, before, after) ==
  /\ pool' = [pool EXCEPT ![client[r]] = Released(c)]
  /\ trace' = [trace EXCEPT ![r] = before \o <<"release">> \o after]

\* COMMIT settles; on success the handler answers 201 and releases the
\* session                                                  (index.js 93-108)
Commit(r, o) ==
  LET s == client[r] IN
  /\ pc[r] = "commit"
  /\ o \in Outcomes(s)
  /\ CASE o = "ok" ->
            /\ Households' = CommittedHouseholds(pool[s])
            /\ FamilyMembers' = CommittedMembers(pool[s])
            /\ response' = [response EXCEPT ![r] = @ \o
                 <<Respond(r, 201, [success |-> True, message |-> MsgRegistered])>>]
            /\ Finally(r, Committed(pool[s]), trace[r] \o <<"respond">>, <<>>)
            /\ pc' = [pc EXCEPT ![r] = "done"]
            /\ UNCHANGED error
       [] o = "error" ->
            /\ Catch(r, MsgStore, trace[r])
            /\ UNCHANGED <<pool, Households, FamilyMembers, response>>
       [] o = "lost" ->
            /\ pool' = [pool EXCEPT ![s] = Lost(@)]
            /\ Catch(r, MsgStore, trace[r])
            /\ UNCHANGED <<Households, FamilyMembers, response>>
  /\ UNCHANGED <<endpoint, body, client, householdId, idx, results, nextId>>

\* ROLLBACK settles.  On success the handler answers 500 with the caught
\* error and releases the session.  ROLLBACK fails only on a lost
\* connection: the await throws inside the catch block, the finally block
\* still releases, and the handler's promise rejects with nothing written
\* to res                                                   (index.js 97-108)
Rollback(r, o) ==
  LET s == client[r] IN
  /\ pc[r] = "rollback"
  /\ endpoint[r] = "submit-form"
  /\ o \in Outcomes(s) \ {"error"}
  /\ CASE o = "ok" ->
            /\ response' = [response EXCEPT ![r] = @ \o
                 <<Respond(r, 500, [error |-> MsgInternal, details |-> error[r]])>>]
            /\ Finally(r, RolledBack(pool[s]), trace[r] \o <<"respond">>, <<>>)
       [] o = "lost" ->
            /\ Finally(r, Lost(pool[s]), trace[r], <<"reject">>)
            /\ UNCHANGED response
  /\ pc' = [pc EXCEPT ![r] = "done"]
  /\ UNCHANGED <<endpoint, body, client, householdId, idx, error, results>>
  /\ UNCHANGED <<Households, FamilyMembers, nextId>>

(***************************************************************************)
(* The read endpoints                                    (index.js 111-275)*)
(***************************************************************************)
ReadEndpoints == {"households", "family-members", "kpis", "tithe-data",
                  "dashboard-charts-data"}

\* The endpoints that call pool.connect() inside their try block
\* (index.js 113, 127); the others call it before the try (145, 183, 214).
ConnectInTry == {"households", "family-members"}

\* The endpoints with a finally { client.release() }  (index.js 176, 207, 272)
ReleaseInFinally == {"kpis", "tithe-data", "dashboard-charts-data"}

\* The endpoints that call client.release() right after their query
\* (index.js 115, 134, 192)
ReleaseAfterQuery == {"households", "family-members", "tithe-data"}

\* How many queries the handler awaits.
QueryCount(ep) ==
  CASE ep = "kpis" -> 4 [] ep = "dashboard-charts-data" -> 2 [] OTHER -> 1

RECURSIVE NatToDigits(_)
\* The decimal text of n: COUNT(*) arrives as text.
NatToDigits(n) ==
  LET d == CHOOSE c \in Digits : DigitVal(c) = n % 10
  IN  IF n < 10 THEN <<d>> ELSE NatToDigits(n \div 10) \o <<d>>

\* parseInt(text, 10) of a decimal text.
ParseInt(text) == DigitsToNat(text)

\* The year of the current date, which AGE() measures from.
CurrentYear == 2026
MaxAge == 62

\* The first of January, a whole years ago.
BirthDateOf(a) == ToString(CurrentYear - a) \o "-01-01"

\* EXTRACT(YEAR FROM AGE(birthdate)), for the birth dates of the model.
AgeOf(birthdate) ==
  IF \E a \in 0..MaxAge : BirthDateOf(a) = birthdate
  THEN CHOOSE a \in 0..MaxAge : BirthDateOf(a) = birthdate
  ELSE 0

\* The rows the n-th query of endpoint ep returns from the committed store.
QueryRows(ep, n) ==
  CASE ep = "households" -> Households
    [] ep = "family-members" ->
         {[member |-> m, latitude |-> h.latitude, longitude |-> h.longitude] :
            <<m, h>> \in {p \in FamilyMembers \X Households :
                            p[1].household_id = p[2].household_id}}
    [] ep = "kpis" /\ n = 1 -> {[count |-> NatToDigits(Cardinality(Households))]}
    [] ep = "kpis" /\ n = 2 -> {[count |-> NatToDigits(Cardinality(FamilyMembers))]}
    [] ep = "kpis" /\ n = 3 ->
         {[count |-> NatToDigits(Cardinality(
                       {h \in Households : h.tithe_status = "paid"}))]}
    [] ep = "kpis" /\ n = 4 ->
         {[count |-> NatToDigits(Cardinality(
                       {m \in FamilyMembers : m.serveinchurch = True}))]}
    [] ep = "tithe-data" ->
         {[tithe_status |-> t,
           count |-> NatToDigits(Cardinality(
                       {h \in Households : h.tithe_status = t}))] :
            t \in {h.tithe_status : h \in Households}}
    [] ep = "dashboard-charts-data" /\ n = 1 ->
         {[gender |-> m.gender, age |-> AgeOf(m.birthdate),
           household_id |-> m.household_id, by |-> m.by, pos |-> m.pos] :
            m \in FamilyMembers}
    [] ep = "dashboard-charts-data" /\ n = 2 ->
         {[household_id |-> h.household_id, community |-> h.community] :
            h \in Households}

\* Mutant: the statuses are compared with their capitalised names.
titheNameCapitalised(status) ==
  IF status = "Paid" THEN "Paid"
  ELSE IF status = "Pending" THEN "Pending" ELSE "Other"

\* row.tithe_status === 'paid' ? 'Paid' : (... 'pending' ? 'Pending' : 'Other')
titheName(status) ==
  IF status = "paid" THEN "Paid"
  ELSE IF status = "pending" THEN "Pending" ELSE "Other"

\* The body of the tithe breakdown                        (index.js 194-203)
titheData(rows) ==
  LET data == {[name |-> titheName(row.tithe_status),
                count |-> ParseInt(row.count)] : row \in rows}
      find(name) == IF \E d \in data : d.name = name
                    THEN CHOOSE d \in data : d.name = name
                    ELSE [name |-> name, count |-> 0]
  IN  <<find("Paid"), find("Pending")>>

\* Mutant: the brackets are closed on the other side.
calculateAgeGroupShifted(age) ==
  IF age <= 13 THEN "children"
  ELSE IF age < 25 THEN "youth"
  ELSE IF age < 60 THEN "adults" ELSE "seniors"

\* calculateAgeGroup                                      (index.js 238-243)
calculateAgeGroup(age) ==
  IF age < 13 THEN "children"
  ELSE IF age <= 25 THEN "youth"
  ELSE IF age <= 60 THEN "adults" ELSE "seniors"

\* ageGroup.charAt(0).toUpperCase() + ageGroup.slice(1)   (index.js 250)
Capitalized(group) ==
  CASE group = "children" -> "Children" [] group = "youth" -> "Youth"
    [] group = "adults" -> "Adults" [] group = "seniors" -> "Seniors"

\* Mutant: only a null or undefined community gets the fallback label.
communityOrNullish(community) ==
  IF community \in {Null, Undefined} THEN "Unspecified" ELSE community

\* h.community || 'Unspecified'                           (index.js 258)
communityOr(community) ==
  IF community \in Falsy THEN "Unspecified" ELSE community

\* The body of the dashboard charts                       (index.js 219-268)
chartsData(members, households) ==
  [genderData |->
     << [name |-> Male, value |-> Cardinality({m \in members : m.gender = Male})],
        [name |-> Female, value |-> Cardinality({m \in members : m.gender = Female})] >>,
   ageData |->
     [j \in 1..4 |->
        LET name == <<"Children", "Youth", "Adults", "Seniors">>[j]
        IN  [name |-> name,
             count |-> Cardinality({m \in members :
                          Capitalized(calculateAgeGroup(m.age)) = name})]],
   locationData |->
     {[community |-> c,
       count |-> Cardinality({h \in households : communityOr(h.community) = c})] :
        c \in {communityOr(h.community) : h \in households}}]

\* The body of the 200 response, from the rows of the awaited queries.
ReadBody(ep, rows) ==
  CASE ep \in {"households", "family-members"} -> rows[1]
    [] ep = "kpis" ->
         LET count(n) == ParseInt((CHOOSE row \in rows[n] : TRUE).count)
         IN  [totalHouseholds |-> count(1), totalMembers |-> count(2),
              activeTithers |-> count(3), engagedServers |-> count(4)]
    [] ep = "tithe-data" -> titheData(rows[1])
    [] ep = "dashboard-charts-data" -> chartsData(rows[1], rows[2])

\* The request arrives; the handler asks the pool for a session.
Read(r, ep) ==
  /\ pc[r] = "idle"
  /\ \A q \in Requests : q < r => pc[q] # "idle"
  /\ endpoint' = [endpoint EXCEPT ![r] = ep]
  /\ pc' = [pc EXCEPT ![r] = "connect"]
  /\ UNCHANGED <<body, client, householdId, idx, error, results, response, trace>>
  /\ UNCHANGED storeVars

\* pool.connect() resolves; the handler issues its first query.
ReadConnect(r) ==
  /\ pc[r] = "connect"
  /\ endpoint[r] \in ReadEndpoints
  /\ IdleSessions # {}
  /\ client' = [client EXCEPT ![r] = NextIdle]
  /\ pool' = [pool EXCEPT ![NextIdle].holder = r]
  /\ trace' = [trace EXCEPT ![r] = @ \o <<"connect", "SELECT">>]
  /\ idx' = [idx EXCEPT ![r] = 1]
  /\ pc' = [pc EXCEPT ![r] = "query"]
  /\ UNCHANGED <<endpoint, body, householdId, error, results, response>>
  /\ UNCHANGED <<Households, FamilyMembers, nextId>>

\* pool.connect() rejects: inside the try the catch block answers 500;
\* before the try the handler's promise rejects and nothing is written.
ReadConnectFail(r) ==
  /\ pc[r] = "connect"
  /\ endpoint[r] \in ReadEndpoints
  /\ IF endpoint[r] \in ConnectInTry
     THEN /\ response' = [response EXCEPT ![r] =
                            @ \o <<Respond(r, 500, [error |-> MsgInternal])>>]
          /\ trace' = [trace EXCEPT ![r] = @ \o <<"respond">>]
     ELSE /\ trace' = [trace EXCEPT ![r] = @ \o <<"reject">>]
          /\ UNCHANGED response
  /\ pc' = [pc EXCEPT ![r] = "done"]
  /\ UNCHANGED <<endpoint, body, client, householdId, idx, error, results>>
  /\ UNCHANGED storeVars

\* What the handler does to the pool and to res after its last query
\* succeeded, in order.
AfterQueries(ep) ==
  (IF ep \in ReleaseAfterQuery THEN <<"release">> ELSE <<>>)
  \o <<"respond">>
  \o (IF ep \in ReleaseInFinally THEN <<"release">> ELSE <<>>)
  \* a second release() of the same client throws in the finally block
  \o (IF ep \in ReleaseAfterQuery \cap ReleaseInFinally THEN <<"reject">> ELSE <<>>)

\* What the handler does after a query failed: the catch block answers 500,
\* and only a finally block releases.
AfterFailure(ep) ==
  <<"respond">> \o (IF ep \in ReleaseInFinally THEN <<"release">> ELSE <<>>)

\* The session after the handler is done with it: released if the handler
\* called release() at least once.
AfterEvents(c, events) ==
  IF \E j \in 1..Len(events) : events[j] = "release" THEN Released(c) ELSE c

\* A query settles; the handler issues the next one, or answers.
Query(r, o) ==
  LET s == client[r]
      ep == endpoint[r]
      rows == results[r] \o <<QueryRows(ep, idx[r])>>
  IN
  /\ pc[r] = "query"
  /\ o \in Outcomes(s)
  /\ CASE o = "ok" /\ idx[r] < QueryCount(ep) ->
            /\ results' = [results EXCEPT ![r] = rows]
            /\ idx' = [idx EXCEPT ![r] = @ + 1]
            /\ trace' = [trace EXCEPT ![r] = @ \o <<"SELECT">>]
            /\ UNCHANGED <<pc, response, pool>>
       [] o = "ok" /\ idx[r] = QueryCount(ep) ->
            /\ results' = [results EXCEPT ![r] = rows]
            /\ response' = [response EXCEPT ![r] =
                              @ \o <<Respond(r, 200, ReadBody(ep, rows))>>]
            /\ trace' = [trace EXCEPT ![r] = @ \o AfterQueries(ep)]
            /\ pool' = [pool EXCEPT ![s] = AfterEvents(@, AfterQueries(ep))]
            /\ pc' = [pc EXCEPT ![r] = "done"]
            /\ UNCHANGED idx
       [] o \in {"error", "lost"} ->
            /\ response' = [response EXCEPT ![r] =
                              @ \o <<Respond(r, 500, [error |-> MsgInternal])>>]
            /\ trace' = [trace EXCEPT ![r] = @ \o AfterFailure(ep)]
            /\ pool' = [pool EXCEPT ![s] =
                          AfterEvents(IF o = "lost" THEN Lost(@) ELSE @,
                                      AfterFailure(ep))]
            /\ pc' = [pc EXCEPT ![r] = "done"]
            /\ UNCHANGED <<results, idx>>
  /\ UNCHANGED <<endpoint, body, client, householdId, error>>
  /\ UNCHANGED <<Households, FamilyMembers, nextId>>

ReadStep(r) ==
  \/ ReadConnect(r)
  \/ ReadConnectFail(r)
  \/ \E o \in {"ok", "error", "lost"} : Query(r, o)

\* What the store can answer: Statement to every statement, and to the
\* household insert also the anomalies the handler guards against (no row
\* returned, a row without identifier).
Statement == {"ok", "error", "lost"}
Anomaly == {"norow", "noid"}

SubmitStep(r, answers) ==
  \/ Connect(r)
  \/ ConnectFail(r)
  \/ \E o \in Statement : Begin(r, o)
  \/ \E o \in answers : InsertHousehold(r, o)
  \/ \E o \in Statement : InsertMember(r, o)
  \/ \E o \in Statement : Commit(r, o)
  \/ \E o \in Statement : Rollback(r, o)

(***************************************************************************)
(* Specifications.                                                         *)
(***************************************************************************)
\* Concurrent submissions.
Next ==
  \E r \in Requests :
    \/ \E b \in SmallBodies : Submit(r, b)
    \/ SubmitStep(r, Statement)

Spec == Init /\ [][Next]_vars

\* One submission, over every shape of body and every answer of the store.
NextOne ==
  \/ \E b \in RichBodies : Submit(1, b)
  \/ SubmitStep(1, Statement \cup Anomaly)

SpecOne == Init /\ [][NextOne]_vars

\* Concurrent requests to the read endpoints.
NextRead ==
  \E r \in Requests :
    \/ \E ep \in ReadEndpoints : Read(r, ep)
    \/ ReadStep(r)

SpecRead == Init /\ [][NextRead]_vars

(***************************************************************************)
(* Read endpoints over a store that already holds rows.  The rows were     *)
(* committed by earlier submissions; tithe_status and community are        *)
(* columns of Households that no statement of this program writes.         *)
(***************************************************************************)
MaxHouseholds == 3

\* A household row committed before the requests of the model.
StoredHousehold(id, status, community) ==
  [householdRow(0, id, householdValues(Loc_9_03_38_74))
     EXCEPT !.tithe_status = status, !.community = community]

TitheStatuses == {"paid", "pending", "exempt", Null}

\* One GET /api/tithe-data over every store of up to MaxHouseholds
\* households with any tithe statuses.
InitTithe ==
  /\ InitRequests
  /\ \E n \in 0..MaxHouseholds : \E status \in [1..n -> TitheStatuses] :
       /\ Households = {StoredHousehold(id, status[id], Null) : id \in 1..n}
       /\ nextId = n + 1
  /\ FamilyMembers = {}

NextTithe ==
  \/ Read(1, "tithe-data")
  \/ ReadStep(1)

SpecTithe == InitTithe /\ [][NextTithe]_vars

\* A member row committed before the requests of the model: member k of
\* household 1, aged a.
StoredMember(k, a) ==
  memberRow(0, k, memberValues(1, With(IF k % 2 = 1 THEN Abel ELSE Mary,
                                       "birthDate", BirthDateOf(a))))

\* One GET /api/dashboard-charts-data over every household of up to
\* MaxMembers members of any ages 0..MaxAge (listed by age).
InitAge ==
  /\ InitRequests
  /\ Households = {StoredHousehold(1, Null, Null)}
  /\ nextId = 2
  /\ \E n \in 0..MaxMembers : \E age \in [1..n -> 0..MaxAge] :
       /\ \A k \in 1..n : k > 1 => age[k - 1] <= age[k]
       /\ FamilyMembers = {StoredMember(k, age[k]) : k \in 1..n}

NextAge ==
  \/ Read(1, "dashboard-charts-data")
  \/ ReadStep(1)

SpecAge == InitAge /\ [][NextAge]_vars

Communities == {Null, EmptyString, "Bole", "Yeka", "Unspecified"}

\* One GET /api/dashboard-charts-data over every store of up to
\* MaxHouseholds households with any communities.
InitCommunity ==
  /\ InitRequests
  /\ \E n \in 0..MaxHouseholds : \E community \in [1..n -> Communities] :
       /\ Households = {StoredHousehold(id, Null, community[id]) : id \in 1..n}
       /\ nextId = n + 1
  /\ FamilyMembers = {}

SpecCommunity == InitCommunity /\ [][NextAge]_vars

\* Submissions and chart readers side by side, over a store that holds
\* one household with one member.
StoredRows ==
  [households |-> {StoredHousehold(1, Null, Null)},
   members |-> {StoredMember(1, 36)}]

InitMixed ==
  /\ InitRequests
  /\ Households = StoredRows.households
  /\ FamilyMembers = StoredRows.members
  /\ nextId = 2

NextMixed ==
  \E r \in Requests :
    \/ Submit(r, Body(Loc_9_03_38_74, Array(<<Abel, Mary>>)))
    \/ SubmitStep(r, Statement)
    \/ Read(r, "dashboard-charts-data")
    \/ ReadStep(r)

SpecMixed == InitMixed /\ [][NextMixed]_vars

(***************************************************************************)
(* Properties.                                                             *)
(***************************************************************************)
Count(seq, e) == Cardinality({j \in 1..Len(seq) : seq[j] = e})
Did(r, e) == \E j \in 1..Len(trace[r]) : trace[r][j] = e
IsSubmission(r) == endpoint[r] = "submit-form"
Answered(r, status) == \E j \in 1..Len(response[r]) : response[r][j].status = status

HouseholdsOf(r) == {h \in Households : h.by = r}
MembersOf(r) == {m \in FamilyMembers : m.by = r}
NothingCommitted(r) == HouseholdsOf(r) = {} /\ MembersOf(r) = {}

\* The committed rows of r are one household and, attached to it, one row
\* for each member of the body of r.
FullyCommitted(r) ==
  /\ body[r].familyMembers.type = "array"
  /\ Cardinality(HouseholdsOf(r)) = 1
  /\ \A h \in HouseholdsOf(r) :
       {<<m.pos, m.household_id, m.name>> : m \in MembersOf(r)}
         = {<<k, h.household_id, body[r].familyMembers.items[k]["name"]>> :
              k \in 1..Len(body[r].familyMembers.items)}

\* r was rejected for a member without name, birthDate or gender.
RejectedForMember(r) == IsSubmission(r) /\ error[r] = MsgMissingFields

\* C1: atomicity of the submission endpoint.  Wherever a store statement
\* fails, the committed store holds of a submission either its household
\* together with all of its members, or no row at all.
C1_Atomic ==
  \A r \in Requests : NothingCommitted(r) \/ FullyCommitted(r)

\* C1 witness: a submission whose second member insert failed after the
\* household and the first member were inserted has finished and left no
\* row, beside another submission that is fully committed.
C1_Witness ==
  \E r, q \in Requests :
    /\ pc[r] = "done" /\ idx[r] = 2 /\ error[r] = MsgStore
    /\ Count(trace[r], "INSERT FamilyMembers") = 2
    /\ Did(r, "ROLLBACK") /\ NothingCommitted(r)
    /\ q # r /\ FullyCommitted(q)

\* C2: every validation failure (invalid location, empty member list, a
\* member without name, birthDate or gender) is rejected before a session
\* is acquired and before BEGIN or an INSERT is issued.
C2_ValidationBeforeStore ==
  \A r \in Requests :
    ( /\ IsSubmission(r)
      /\ response[r] # <<>>
      /\ \/ InvalidLocation(body[r].householdLocation)
         \/ InvalidMemberList(body[r].familyMembers)
         \/ RejectedForMember(r) )
    => /\ client[r] = 0
       /\ ~Did(r, "connect") /\ ~Did(r, "BEGIN")
       /\ ~Did(r, "INSERT Households") /\ ~Did(r, "INSERT FamilyMembers")

\* C3: the status follows the failure class.  A member without name,
\* birthDate or gender is answered 400, like an invalid location or member
\* list; only store failures are answered 500.
C3_StatusByFailureClass ==
  \A r \in Requests : \A j \in 1..Len(response[r]) :
    IsSubmission(r) =>
      /\ RejectedForMember(r) => response[r][j].status = 400
      /\ response[r][j].status = 500 =>
           error[r] \in {MsgStore, MsgNoHousehold, MsgTypeError}

\* C4: a session the submission handler acquired is released exactly once
\* on every exit path, never left checked out and never released twice.
C4_ReleasedOnce ==
  \A r \in Requests :
    IsSubmission(r) =>
      /\ Count(trace[r], "release") <= 1
      /\ pc[r] = "done" /\ client[r] # 0 =>
           /\ Count(trace[r], "release") = 1
           /\ pool[client[r]].holder # r
      /\ pc[r] = "done" => \A s \in Sessions : pool[s].holder # r

\* C4 witness: a submission whose ROLLBACK failed has finished without an
\* answer, and its session was released once.
C4_Witness ==
  \E r \in Requests :
    /\ IsSubmission(r) /\ pc[r] = "done"
    /\ Did(r, "ROLLBACK") /\ response[r] = <<>>
    /\ Count(trace[r], "release") = 1
    /\ pool[client[r]].holder = 0

\* C5: every request to a read endpoint returns the session it checked out
\* exactly once, whether its queries succeed or fail.
C5_ReadReleasedOnce ==
  \A r \in Requests :
    (endpoint[r] \in ReadEndpoints /\ pc[r] = "done" /\ client[r] # 0)
    => Count(trace[r], "release") = 1

\* C6: every invocation of the submission endpoint ends with exactly one
\* response (201, 400 or 500) and issues at most one BEGIN.
C6_OneResponseOneAttempt ==
  \A r \in Requests :
    (IsSubmission(r) /\ pc[r] = "done") =>
      /\ Len(response[r]) = 1
      /\ response[r][1].status \in {201, 400, 500}
      /\ Count(trace[r], "BEGIN") <= 1

\* C7: 201 is answered if and only if the household and all members are
\* committed; with any other answer no row of the submission is committed.
C7_SuccessIffCommitted ==
  \A r \in Requests :
    IsSubmission(r) =>
      /\ Answered(r, 201) <=> FullyCommitted(r)
      /\ (response[r] # <<>> /\ ~Answered(r, 201)) => NothingCommitted(r)
      /\ Len(response[r]) <= 1

\* C7 witness: one submission was answered 201 and is fully committed;
\* another was answered 500 after its inserts and left no row.
C7_Witness ==
  \E r, q \in Requests :
    /\ Answered(r, 201) /\ FullyCommitted(r)
    /\ Answered(q, 500) /\ Did(q, "INSERT FamilyMembers") /\ NothingCommitted(q)

\* C8: every committed member row carries the household_id of exactly one
\* committed household row, and that row was inserted by the same request.
C8_MemberOfOwnHousehold ==
  \A m \in FamilyMembers :
    /\ \E h \in Households : h.household_id = m.household_id /\ h.by = m.by
    /\ \A h \in Households : h.household_id = m.household_id => h.by = m.by

\* C8 witness: two submissions interleaved (the later request inserted its
\* household first) and both have committed members.
C8_Witness ==
  \E m1, m2 \in FamilyMembers :
    m1.by < m2.by /\ m1.household_id > m2.household_id

FirstIncomplete(items) ==
  CHOOSE k \in 1..Len(items) :
    /\ IncompleteMember(items[k])
    /\ \A j \in 1..(k - 1) : ~IncompleteMember(items[j])

\* C9: a submission with an incomplete member is rejected at the first such
\* member in input order, no later member is processed, and the rejection
\* names the index of that member.
C9_FirstIncompleteIdentified ==
  \A r \in Requests :
    (RejectedForMember(r) /\ response[r] # <<>>) =>
      LET first == FirstIncomplete(body[r].familyMembers.items) IN
      /\ idx[r] = first
      /\ Count(trace[r], "INSERT FamilyMembers") = first - 1
      /\ "index" \in DOMAIN response[r][1].json
      /\ response[r][1].json.index = first

InsertedMembers == FamilyMembers \cup UNION {pool[s].members : s \in Sessions}

OptionalColumn(f) ==
  CASE f = "educationLevel" -> "educationlevel"
    [] f = "schoolName" -> "schoolname"
    [] f = "studyType" -> "studytype"
    [] f = "studyYear" -> "studyyear"
    [] f = "disabilityType" -> "disabilitytype"
    [] f = "otherDisability" -> "otherdisability"

\* C10: of every inserted member, each optional column holds null exactly
\* when the input value is missing or falsy and the input value otherwise,
\* and all 16 columns are supplied.
C10_OptionalNormalized ==
  \A row \in InsertedMembers :
    LET member == body[row.by].familyMembers.items[row.pos] IN
    /\ {memberColumns[j] : j \in 1..16} \subseteq DOMAIN row
    /\ Len(memberColumns) = 16
    /\ \A f \in OptionalFields :
         /\ row[OptionalColumn(f)] = Null
              <=> member[f] \in {Undefined, Null, EmptyString, Zero, False}
         /\ member[f] \notin {Undefined, Null, EmptyString, Zero, False}
              => row[OptionalColumn(f)] = member[f]

\* C10 witness: committed rows of members that sent text, 0, false, null,
\* "" and nothing in optional fields.
C10_Witness ==
  \E mary, sara \in FamilyMembers :
    /\ mary.name = "Mary" /\ mary.schoolname = "AAU"
    /\ mary.studyyear = Null /\ mary.otherdisability = Null
    /\ mary.educationlevel = Null
    /\ sara.name = "Sara" /\ sara.studytype = Null
    /\ sara.disabilitytype = "hearing" /\ sara.educationlevel = Null

\* C11: over every store, the tithe breakdown is exactly two entries,
\* "Paid" then "Pending", whose counts are the numbers of households with
\* tithe_status 'paid' and 'pending' (0 for a group that is missing).
C11_TitheBreakdown ==
  \A r \in Requests :
    (endpoint[r] = "tithe-data" /\ Answered(r, 200)) =>
      LET json == response[r][1].json IN
      /\ Len(json) = 2
      /\ json[1] = [name |-> "Paid",
                    count |-> Cardinality({h \in Households :
                                             h.tithe_status = "paid"})]
      /\ json[2] = [name |-> "Pending",
                    count |-> Cardinality({h \in Households :
                                             h.tithe_status = "pending"})]

\* C11 witness: the breakdown was answered over a store with two paid
\* households, none pending and one without status.
C11_Witness ==
  /\ Answered(1, 200)
  /\ Cardinality({h \in Households : h.tithe_status = "paid"}) = 2
  /\ \E h \in Households : h.tithe_status = Null
  /\ response[1][1].json[2] = [name |-> "Pending", count |-> 0]

\* C12: the age chart always lists the four buckets Children, Youth,
\* Adults, Seniors; a member aged a is counted in Children iff a < 13, in
\* Youth iff 13 <= a <= 25, in Adults iff 26 <= a <= 60, in Seniors iff
\* a > 60; and the four counts add up to the number of members.
C12_AgeBrackets ==
  \A r \in Requests :
    (endpoint[r] = "dashboard-charts-data" /\ Answered(r, 200)) =>
      LET ageData == response[r][1].json.ageData
          aged(lo, hi) == Cardinality({m \in FamilyMembers :
                                         /\ lo <= AgeOf(m.birthdate)
                                         /\ AgeOf(m.birthdate) <= hi})
      IN  /\ Len(ageData) = 4
          /\ ageData[1] = [name |-> "Children", count |-> aged(0, 12)]
          /\ ageData[2] = [name |-> "Youth", count |-> aged(13, 25)]
          /\ ageData[3] = [name |-> "Adults", count |-> aged(26, 60)]
          /\ ageData[4] = [name |-> "Seniors", count |-> aged(61, MaxAge)]
          /\ ageData[1].count + ageData[2].count + ageData[3].count
               + ageData[4].count = Cardinality(FamilyMembers)

\* C12 witness: the chart was answered for a household with one member of
\* 60 and one of 61, counted as one adult and one senior.
C12_Witness ==
  /\ Answered(1, 200)
  /\ endpoint[1] = "dashboard-charts-data"
  /\ {AgeOf(m.birthdate) : m \in FamilyMembers} = {60, 61}
  /\ response[1][1].json.ageData[3].count = 1
  /\ response[1][1].json.ageData[4].count = 1

RECURSIVE SumOfCounts(_)
\* The sum of the counts of a set of chart entries.
SumOfCounts(entries) ==
  IF entries = {} THEN 0
  ELSE LET e == CHOOSE x \in entries : TRUE
       IN  e.count + SumOfCounts(entries \ {e})

\* C20: the community chart has exactly one entry per distinct community
\* label, each counting the households of that label; households whose
\* community is null or empty are all counted under 'Unspecified'; and the
\* counts add up to the number of households.
C20_CommunityBreakdown ==
  \A r \in Requests :
    (endpoint[r] = "dashboard-charts-data" /\ Answered(r, 200)) =>
      LET locationData == response[r][1].json.locationData
          named == {h.community : h \in Households} \ {Null, EmptyString}
          unnamed == {h \in Households : h.community \in {Null, EmptyString}}
          labels == named \cup (IF unnamed = {} THEN {} ELSE {"Unspecified"})
          labelled(c) == {h \in Households : h.community = c}
                           \cup (IF c = "Unspecified" THEN unnamed ELSE {})
      IN  /\ {e.community : e \in locationData} = labels
          /\ Cardinality(locationData) = Cardinality(labels)
          /\ \A e \in locationData : e.count = Cardinality(labelled(e.community))
          /\ SumOfCounts(locationData) = Cardinality(Households)

\* C20 witness: the chart was answered over a household without community,
\* one with an empty community and one in Bole: two entries, 'Unspecified'
\* counting two.
C20_Witness ==
  /\ Answered(1, 200)
  /\ endpoint[1] = "dashboard-charts-data"
  /\ {h.community : h \in Households} = {Null, EmptyString, "Bole"}
  /\ response[1][1].json.locationData =
       {[community |-> "Unspecified", count |-> 2],
        [community |-> "Bole", count |-> 1]}

\* The handler rejects body b for its location, its member list or one of
\* its members.
FailsValidation(b) ==
  \/ InvalidLocation(b.householdLocation)
  \/ InvalidMemberList(b.familyMembers)
  \/ \E k \in 1..Len(b.familyMembers.items) :
       IncompleteMember(b.familyMembers.items[k])

\* C13: idempotent rejection.  Two finished submissions of the same body
\* that fails validation, whatever was requested between them, were given
\* the same response, and neither has a row in the committed store.
C13_IdempotentRejection ==
  \A r, q \in Requests :
    ( /\ IsSubmission(r) /\ IsSubmission(q)
      /\ pc[r] = "done" /\ pc[q] = "done"
      /\ body[r] = body[q]
      /\ FailsValidation(body[r]) )
    => /\ response[r] = response[q]
       /\ NothingCommitted(r) /\ NothingCommitted(q)

\* The submission r failed at a store stage: BEGIN, an insert or COMMIT
\* failed, or the household insert gave no identifier.
StoreStageFailure(r) ==
  IsSubmission(r) /\ error[r] \in {MsgStore, MsgNoHousehold, MsgTypeError}

\* C14: after every store-stage failure of a submission ROLLBACK is issued,
\* on the session the request holds, and it is issued before the error
\* response is written and before the session is released.
C14_RollbackFirst ==
  \A r \in Requests :
    StoreStageFailure(r) =>
      /\ Count(trace[r], "ROLLBACK") = 1
      /\ \A j \in 1..Len(trace[r]) :
           trace[r][j] \in {"respond", "release"} =>
             \E i \in 1..(j - 1) : trace[r][i] = "ROLLBACK"
      /\ pc[r] = "rollback" =>
           /\ client[r] \in Sessions
           /\ pool[client[r]].holder = r

\* C14 witness: a household insert that gave no identifier was followed by
\* ROLLBACK, then the 500 response, then the release.
C14_Witness ==
  /\ pc[1] = "done"
  /\ error[1] = MsgNoHousehold
  /\ trace[1] = <<"connect", "BEGIN", "INSERT Households", "ROLLBACK",
                  "respond", "release">>
  /\ Answered(1, 500)

\* C15: a failed ROLLBACK is not escalated.  A submission that issued
\* ROLLBACK finishes with the 500 response that carries the original
\* error, and its handler does not reject.
C15_RollbackBestEffort ==
  \A r \in Requests :
    (IsSubmission(r) /\ pc[r] = "done" /\ Did(r, "ROLLBACK")) =>
      /\ ~Did(r, "reject")
      /\ Len(response[r]) = 1
      /\ response[r][1] = Respond(r, 500, [error |-> MsgInternal,
                                           details |-> error[r]])

\* seq is an initial part of full.
IsPrefix(seq, full) ==
  Len(seq) <= Len(full) /\ \A j \in 1..Len(seq) : seq[j] = full[j]

\* The statements of a submission of n members that meets no failure.
StatementsFor(n) ==
  <<"BEGIN", "INSERT Households">>
    \o [k \in 1..n |-> "INSERT FamilyMembers"] \o <<"COMMIT">>

\* The statements request r has issued so far, ROLLBACK apart.
StatementsOf(r) ==
  LET IsStatement(e) ==
        e \in {"BEGIN", "INSERT Households", "INSERT FamilyMembers", "COMMIT"}
  IN  SelectSeq(trace[r], IsStatement)

\* C16: a submission issues its statements one at a time on its session in
\* the order BEGIN, household insert, one insert per member in input order,
\* COMMIT.  A member insert is issued only once the household identifier
\* was read back; when a statement is issued every earlier one has
\* settled; on success the committed member rows are the N input members.
C16_Sequential ==
  \A r \in Requests :
    (IsSubmission(r) /\ Did(r, "connect")) =>
      LET items == body[r].familyMembers.items
          s == client[r]
          inserted == {<<m.pos, m.name>> : m \in pool[s].members}
          first(n) == {<<k, items[k]["name"]>> : k \in 1..n}
      IN  /\ IsPrefix(StatementsOf(r), StatementsFor(Len(items)))
          /\ \A i, j \in 1..Len(trace[r]) :
               (i < j /\ trace[r][i] = "ROLLBACK") =>
                 trace[r][j] \in {"respond", "release", "reject"}
          /\ Did(r, "INSERT FamilyMembers") =>
               /\ householdId[r] # 0
               /\ pc[r] \in {"member", "commit"} =>
                    \E h \in pool[s].households : h.household_id = householdId[r]
          /\ pc[r] = "household" => pool[s].households = {} /\ pool[s].open
          /\ pc[r] = "member" =>
               /\ idx[r] = Count(trace[r], "INSERT FamilyMembers")
               /\ inserted = first(idx[r] - 1)
          /\ pc[r] = "commit" => inserted = first(Len(items))
          /\ Answered(r, 201) =>
               /\ FullyCommitted(r)
               /\ Cardinality(MembersOf(r)) = Len(items)

\* C16 witness: a submission of two members has issued BEGIN, the household
\* insert, the two member inserts and COMMIT in this order, and its two
\* members are committed.
C16_Witness ==
  /\ trace[1] = <<"connect", "BEGIN", "INSERT Households",
                  "INSERT FamilyMembers", "INSERT FamilyMembers", "COMMIT",
                  "respond", "release">>
  /\ Answered(1, 201)
  /\ Len(body[1].familyMembers.items) = 2
  /\ Cardinality(MembersOf(1)) = 2

\* C17: when the household insert gives no row or no household_id, no
\* member insert is issued, ROLLBACK is issued, the caller is answered 500
\* and no row of the submission is committed.
C17_NoIdentifier ==
  \A r \in Requests :
    ( /\ IsSubmission(r) /\ pc[r] = "done"
      /\ error[r] \in {MsgNoHousehold, MsgTypeError} )
    => /\ ~Did(r, "INSERT FamilyMembers")
       /\ Did(r, "ROLLBACK")
       /\ Answered(r, 500)
       /\ NothingCommitted(r)

\* The locations of the model that are a pair of signed decimals.
DecimalPairs == {Loc_9_03_38_74, Loc_neg}

\* C18: a submission whose householdLocation is missing or is not a pair
\* of signed decimals, or whose familyMembers is missing, not an array or
\* empty, is answered 400 without a session being acquired or a statement
\* issued; a body that fails both checks is rejected for its location.
C18_RejectedBeforeStore ==
  \A r \in Requests :
    IsSubmission(r) =>
      LET badLocation == body[r].householdLocation \notin DecimalPairs
          badMembers == \/ body[r].familyMembers.type # "array"
                        \/ Len(body[r].familyMembers.items) = 0
      IN  (badLocation \/ badMembers) =>
            /\ pc[r] = "done"
            /\ response[r] =
                 <<Respond(r, 400, [error |-> IF badLocation THEN MsgLocation
                                              ELSE MsgMembers])>>
            /\ trace[r] = <<"respond">>
            /\ client[r] = 0
            /\ \A s \in Sessions : pool[s] = FreshSession

\* C18 witness: a body with three numbers for its location and no
\* familyMembers was answered 400 for its location.
C18_Witness ==
  /\ body[1] = Body(Loc_three, Missing)
  /\ response[1] = <<Respond(1, 400, [error |-> MsgLocation])>>
  /\ trace[1] = <<"respond">>

\* Request r is between pool.connect() and its release.
HoldsSession(r) ==
  pc[r] \in {"begin", "household", "member", "commit", "rollback", "query"}

\* C19: concurrent requests are independent.  Each request works on a
\* session of its own, and the rows of an open transaction are those of
\* the request that holds the session; the committed store is the rows it
\* held at the start together with all the rows of every submission that
\* was answered 201, whatever the other requests rolled back; and every
\* member row a reader or the committed store shows has its household row.
C19_Independent ==
  /\ \A r \in Requests :
       HoldsSession(r) =>
         /\ client[r] \in Sessions
         /\ pool[client[r]].holder = r
  /\ \A r, q \in Requests :
       (r # q /\ HoldsSession(r) /\ HoldsSession(q)) => client[r] # client[q]
  /\ \A s \in Sessions : \A row \in pool[s].households \cup pool[s].members :
       row.by = pool[s].holder
  /\ StoredRows.households \subseteq Households
  /\ StoredRows.members \subseteq FamilyMembers
  /\ \A r \in Requests :
       IF IsSubmission(r) /\ Answered(r, 201)
       THEN FullyCommitted(r)
       ELSE NothingCommitted(r)
  /\ \A m \in FamilyMembers :
       \E h \in Households : h.household_id = m.household_id
  /\ \A r \in Requests :
       (endpoint[r] = "dashboard-charts-data" /\ Len(results[r]) = 2) =>
         \A m \in results[r][1] :
           \E h \in results[r][2] : h.household_id = m.household_id

\* C19 witness: two submissions ran at the same time on different
\* sessions; one was rolled back after its household insert, the other is
\* committed in full.
C19_Witness ==
  \E r, q \in Requests :
    /\ IsSubmission(r) /\ IsSubmission(q)
    /\ pc[r] = "done" /\ pc[q] = "done"
    /\ client[r] \in Sessions /\ client[q] \in Sessions
    /\ client[r] # client[q]
    /\ Did(r, "INSERT FamilyMembers") /\ Did(r, "ROLLBACK") /\ Answered(r, 500)
    /\ Answered(q, 201) /\ FullyCommitted(q)
    /\ StoredRows.households \subseteq Households

=============================================================================
